---- MODULE Spec2Model ----
(***************************************************************************)
(* A model of lvm2go's execution layer: the context-carried execution      *)
(* configuration, the containerization detector, the command builder       *)
(* (CommandContext), the noNsenter client decorator and the locking        *)
(* client, and VGReduce's option list.                                     *)
(*                                                                         *)
(* Six specifications share the variables:                                 *)
(*   Spec       a single caller deriving contexts and building commands    *)
(*   SpecWrap   a caller invoking operations through the noNsenter wrapper *)
(*   SpecDetect goroutines calling IsContainerized concurrently            *)
(*   SpecLock   goroutines calling operations of a locking client          *)
(*   SpecVG     a caller composing an option list and calling VGReduce     *)
(*   SpecDerive goroutines deriving contexts from shared parents           *)
(***************************************************************************)
EXTENDS Integers, Sequences, FiniteSets, TLC

VARIABLES
    ctx,                \* the caller's context: the chain of (key, value) pairs
    heap,               \* the caller's environment maps, by reference
    signals,            \* the detection signals present on the host
    detectDone,         \* detectContainerized (sync.Once): its done flag
    isContainerized,    \* the package variable isContainerized
    useStandardLocale,  \* the package variable useStandardLocale
    call,               \* the operation the caller last invoked, with its inputs
    cmd,                \* the descriptor CommandContext last returned
    ret,                \* the boolean WillUseNsenter last returned
    inner,              \* the calls the wrapped client has received
    iret,               \* what the wrapped client returned
    wret,               \* what the noNsenter wrapper returned to its caller
    gpc,                \* SpecDetect: each goroutine's position in IsContainerized
    gret,               \* SpecDetect: what each goroutine's call returned
    onceM,              \* SpecDetect: the holder of the sync.Once mutex
    probes,             \* SpecDetect: the probes performed so far, in order
    firstRet,           \* SpecDetect: the value the first finished call returned
    glate,              \* SpecDetect: the goroutine's call began after a call had returned
    lpc,                \* SpecLock: each goroutine's position in its operation
    lop,                \* SpecLock: each goroutine's operation (kind, name)
    lres,               \* SpecLock: how each goroutine's last operation ended
    registry,           \* SpecLock: the resource names that have a lock
    regM,               \* SpecLock: the holder of the registry's own mutex
    held,               \* SpecLock: the holder of each resource's lock
    vgopts,             \* SpecVG: the option list VGReduce was last called with
    vgres,              \* SpecVG: what VGReduceOptionsList.AsArgs returned in it
    vgerr,              \* SpecVG: the error VGReduce returned
    ran,                \* SpecVG: the command lines handed to RunLVM
    nodes,              \* SpecDerive: the value contexts allocated so far
    dpc,                \* SpecDerive: each goroutine's derivation under way
    localeCalls         \* the values the first and the latest SetUseStandardLocale got

ctxVars == <<ctx, heap, signals, detectDone, isContainerized, useStandardLocale,
             call, cmd, ret>>
wrapVars == <<inner, iret, wret>>
detVars == <<gpc, gret, onceM, probes, firstRet, glate>>
lockVars == <<lpc, lop, lres, registry, regM, held>>
deriveVars == <<nodes, dpc>>
optVars == <<vgopts, vgres, vgerr, ran, nodes, dpc, localeCalls>>
vars == <<ctx, heap, signals, detectDone, isContainerized, useStandardLocale,
          call, cmd, ret, inner, iret, wret, gpc, gret, onceM, probes, firstRet, glate,
          lpc, lop, lres, registry, regM, held, vgopts, vgres, vgerr, ran, nodes, dpc,
          localeCalls>>

(***************************************************************************)
(* Bounds and input sets                                                   *)
(***************************************************************************)
MaxCtxLen == 2
NumGoroutines == 2
MaxProbes == 8

Delays == {0, 2}
VolumeGroups == {"", "vg1"}
MapRefs == {"nil", "m1"}
EnvKeys == {"FOO", "LC_ALL"}
EnvVals == {"1"}
Cmds == {"/usr/sbin/lvm", "/usr/sbin/lvmdevices"}
ArgLists == {<<>>, <<"vgs", "--reportformat">>}
Environ == <<"PATH=/usr/bin", "HOME=/root">>

(***************************************************************************)
(* The execution-configuration context                                     *)
(***************************************************************************)
\* A Go value with its dynamic type.
NilValue == [type |-> "nil", v |-> "nil"]

\* The four context keys. Each is the value struct{}{} of the unnamed type
\* struct{}: as interface values they are all equal to one another.
waitDelayKey == [gotype |-> "struct {}", val |-> "{}"]
defaultVolumeGroupKey == [gotype |-> "struct {}", val |-> "{}"]
envContextKey == [gotype |-> "struct {}", val |-> "{}"]
forceNoNsenterKey == [gotype |-> "struct {}", val |-> "{}"]

DefaultWaitDelay == 0
nsenter == "/usr/bin/nsenter"
DefaultVolumeGroupEnv == "LVM_VG_NAME"

\* context.WithValue: a child context holding one more (key, value) pair.
WithValue(c, key, val) == Append(c, [key |-> key, val |-> val])

\* ctx.Value(key): the value of the innermost pair whose key equals key,
\* nil when there is none.
Value(c, key) ==
    LET hits == {i \in 1..Len(c) : c[i].key = key}
    IN IF hits = {} THEN NilValue
       ELSE c[CHOOSE i \in hits : \A j \in hits : j <= i].val

SetProcessCancelWaitDelay(c, delay) ==
    WithValue(c, waitDelayKey, [type |-> "time.Duration", v |-> delay])

GetProcessCancelWaitDelay(c) ==
    LET x == Value(c, waitDelayKey)
    IN IF x.type = "time.Duration" THEN x.v ELSE DefaultWaitDelay

WithDefaultVolumeGroup(c, vg) ==
    WithValue(c, defaultVolumeGroupKey, [type |-> "string", v |-> vg])

\* DefaultVolumeGroup with a plain type assertion, which panics on a value
\* that is not a string
DefaultVolumeGroup_Unchecked(c) ==
    LET x == Value(c, defaultVolumeGroupKey)
    IN IF x.type = "string" THEN x.v ELSE "panic"

DefaultVolumeGroup(c) ==
    LET x == Value(c, defaultVolumeGroupKey)
    IN IF x.type = "string" THEN x.v ELSE ""

WithCustomEnvironment(c, env) ==
    WithValue(c, envContextKey, [type |-> "map[string]string", v |-> env])

WithForceNoNsenter(c, force) ==
    WithValue(c, forceNoNsenterKey, [type |-> "bool", v |-> force])

\* Returns the map itself (a reference), "nil" for no map.
GetCustomEnvironment(c) ==
    LET x == Value(c, envContextKey)
    IN IF x.type = "map[string]string" THEN x.v ELSE "nil"

shouldForceNoNsenter_NeverForced(c) == FALSE

shouldForceNoNsenter(c) ==
    LET x == Value(c, forceNoNsenterKey)
    IN IF x.type = "bool" THEN x.v ELSE FALSE

(***************************************************************************)
(* The containerization detector                                           *)
(***************************************************************************)
dockerenv == "/.dockerenv"
containerenv == "/.containerenv"
kubeHostEnv == "KUBERNETES_SERVICE_HOST"
tokenFile == "/var/run/secrets/kubernetes.io/serviceaccount/token"

\* The probe targets in the order IsContainerized probes them.
ProbeOrder == <<dockerenv, containerenv, kubeHostEnv, tokenFile>>
SignalNames == {dockerenv, containerenv, kubeHostEnv, tokenFile}

\* A file is there ("ok"), is not ("absent") or cannot be examined ("error");
\* an environment variable is set ("ok") or not ("absent").
SignalStates(s) == IF s = kubeHostEnv THEN {"ok", "absent"} ELSE {"ok", "absent", "error"}
NoSignals == [s \in SignalNames |-> "absent"]

ProbeHit_UnlessAbsent(sig, s) == sig[s] # "absent"

\* os.Stat(f) returned err == nil, os.LookupEnv(v) returned ok.
ProbeHit(sig, s) == sig[s] = "ok"

\* The function IsContainerized hands to detectContainerized.Do, run in one
\* piece: the value of isContainerized it leaves.
detectBody(ic, sig) ==
    IF ProbeHit(sig, dockerenv) THEN TRUE
    ELSE IF ProbeHit(sig, containerenv) THEN TRUE
    ELSE IF ProbeHit(sig, kubeHostEnv) THEN TRUE
    ELSE IF ProbeHit(sig, tokenFile) THEN TRUE
    ELSE ic

onceDoneStore_Forgotten == FALSE

\* sync.Once: Do stores done = 1 once the function has run.
onceDoneStore == TRUE

\* IsContainerized called by a single caller: the value of isContainerized
\* after detectContainerized.Do, which is also the value returned.
IsContainerized(done, ic, sig) == IF done THEN ic ELSE detectBody(ic, sig)

WillUseNsenter_IgnoresBypass(cont, c) == cont

WillUseNsenter(cont, c) == cont /\ ~shouldForceNoNsenter(c)

(***************************************************************************)
(* The command builder                                                     *)
(***************************************************************************)
\* A nil slice; append never returns an empty non-nil one.
NilSlice == <<>>

NoCmd == [Path |-> "", Args |-> <<>>, Env |-> NilSlice, WaitDelay |-> 0]

\* exec.CommandContext(ctx, name, arg...): Path is name (a path with a
\* separator is not looked up), Args is name followed by arg, Env is nil.
execCommandContext(name, arg) ==
    [Path |-> name, Args |-> <<name>> \o arg, Env |-> NilSlice, WaitDelay |-> 0]

\* os/exec: a command whose Env is nil runs with the environment of the
\* current process, any other with exactly Env.
RunEnv(c) == IF c.Env = NilSlice THEN Environ ELSE c.Env

nsenterArgs_NoPid == <<"-m", "-u", "-i", "-n", "-t", "1">>

nsenterArgs == <<"-m", "-u", "-i", "-n", "-p", "-t", "1">>

\* The orders in which a range over the map may visit its entries.
Perms(S) ==
    {s \in [1..Cardinality(S) -> S] : \A i, j \in 1..Cardinality(S) : i # j => s[i] # s[j]}
RangeOrders(h, m) == IF m = "nil" THEN {<<>>} ELSE Perms(h[m])

EnvEntries(order) == [i \in 1..Len(order) |-> order[i][1] \o "=" \o order[i][2]]

\* The custom entries put before the locale entry.
CommandWithCustomEnvironment_CustomFirst(locale, c, d, order) ==
    LET d1 == IF GetCustomEnvironment(c) # "nil"
              THEN [d EXCEPT !.Env = d.Env \o EnvEntries(order)]
              ELSE d
    IN IF locale THEN [d1 EXCEPT !.Env = Append(d1.Env, "LC_ALL=C")] ELSE d1

\* order: the order in which the range over the map visits its entries.
CommandWithCustomEnvironment(locale, c, d, order) ==
    LET d1 == IF locale THEN [d EXCEPT !.Env = Append(d.Env, "LC_ALL=C")] ELSE d
    IN IF GetCustomEnvironment(c) # "nil"
       THEN [d1 EXCEPT !.Env = d1.Env \o EnvEntries(order)]
       ELSE d1

\* cont: what IsContainerized(ctx) returned; locale: what UseStandardLocale()
\* returned.
CommandContext(cont, locale, c, name, args, order) ==
    LET d0 == IF cont /\ ~shouldForceNoNsenter(c)
              THEN execCommandContext(nsenter, nsenterArgs \o <<name>> \o args)
              ELSE execCommandContext(name, args)
        d1 == [d0 EXCEPT !.WaitDelay = GetProcessCancelWaitDelay(c)]
        d2 == IF DefaultVolumeGroup(c) # ""
              THEN [d1 EXCEPT !.Env = Append(d1.Env,
                        DefaultVolumeGroupEnv \o "=" \o DefaultVolumeGroup(c))]
              ELSE d1
    IN CommandWithCustomEnvironment(locale, c, d2, order)

(***************************************************************************)
(* Spec: one caller derives contexts and builds commands                   *)
(***************************************************************************)
BoolStr(b) == IF b THEN "true" ELSE "false"
NoCall == [op |-> "none", name |-> "", args |-> <<>>]
NoRet == [val |-> "", err |-> ""]
Goroutines == 1..NumGoroutines
Nobody == 0
Names == {"vg1", "vg2"}

InitSignals ==
    {NoSignals,
     [NoSignals EXCEPT ![dockerenv] = "ok"],
     [NoSignals EXCEPT ![dockerenv] = "error", ![tokenFile] = "ok"]}

InitOther ==
    /\ inner = <<>> /\ iret = NoRet /\ wret = NoRet
    /\ gpc = [g \in Goroutines |-> "idle"]
    /\ gret = [g \in Goroutines |-> "none"]
    /\ glate = [g \in Goroutines |-> FALSE]
    /\ onceM = Nobody /\ probes = <<>> /\ firstRet = "none"
    /\ lpc = [g \in Goroutines |-> "idle"]
    /\ lop = [g \in Goroutines |-> [kind |-> "none", name |-> ""]]
    /\ lres = [g \in Goroutines |-> "none"]
    /\ registry = {} /\ regM = Nobody
    /\ held = [n \in Names |-> Nobody]
    /\ vgopts = <<>> /\ vgres = [args |-> <<>>, nil |-> TRUE, err |-> "none"]
    /\ vgerr = "none" /\ ran = <<>>
    /\ nodes = <<>>
    /\ dpc = [g \in 1..NumGoroutines |-> [pc |-> "idle", parent |-> 0, kv |-> <<>>]]
    /\ localeCalls = [first |-> "unset", last |-> "unset"]

Init ==
    /\ ctx = <<>>
    /\ heap = [m \in MapRefs \ {"nil"} |-> {}]
    /\ signals \in InitSignals
    /\ detectDone = FALSE /\ isContainerized = FALSE
    /\ useStandardLocale = FALSE
    /\ call = NoCall /\ cmd = NoCmd /\ ret = FALSE
    /\ InitOther

Deriving == call.op = "none" /\ Len(ctx) < MaxCtxLen

DeriveWaitDelay ==
    /\ Deriving
    /\ \E d \in Delays : ctx' = SetProcessCancelWaitDelay(ctx, d)
    /\ UNCHANGED <<heap, signals, detectDone, isContainerized, useStandardLocale,
                   call, cmd, ret, wrapVars, detVars, lockVars, optVars>>

DeriveDefaultVolumeGroup ==
    /\ Deriving
    /\ \E vg \in VolumeGroups : ctx' = WithDefaultVolumeGroup(ctx, vg)
    /\ UNCHANGED <<heap, signals, detectDone, isContainerized, useStandardLocale,
                   call, cmd, ret, wrapVars, detVars, lockVars, optVars>>

DeriveCustomEnvironment ==
    /\ Deriving
    /\ \E m \in MapRefs : ctx' = WithCustomEnvironment(ctx, m)
    /\ UNCHANGED <<heap, signals, detectDone, isContainerized, useStandardLocale,
                   call, cmd, ret, wrapVars, detVars, lockVars, optVars>>

DeriveForceNoNsenter ==
    /\ Deriving
    /\ \E force \in BOOLEAN : ctx' = WithForceNoNsenter(ctx, force)
    /\ UNCHANGED <<heap, signals, detectDone, isContainerized, useStandardLocale,
                   call, cmd, ret, wrapVars, detVars, lockVars, optVars>>

\* The caller stores into one of its maps: m[k] = v.
MapAssign ==
    /\ call.op = "none"
    /\ \E m \in MapRefs \ {"nil"}, k \in EnvKeys, v \in EnvVals :
          heap' = [heap EXCEPT ![m] = {p \in @ : p[1] # k} \cup {<<k, v>>}]
    /\ UNCHANGED <<ctx, signals, detectDone, isContainerized, useStandardLocale,
                   call, cmd, ret, wrapVars, detVars, lockVars, optVars>>

\* useStandardLocale = use, under useStandardLocaleMu
storeUseStandardLocale_Once(calls, old, use) == IF calls.first = "unset" THEN use ELSE old
storeUseStandardLocale(calls, old, use) == use

SetUseStandardLocale ==
    /\ call.op = "none"
    /\ \E use \in BOOLEAN :
          /\ useStandardLocale' = storeUseStandardLocale(localeCalls, useStandardLocale, use)
          /\ localeCalls' = [first |-> IF localeCalls.first = "unset" THEN BoolStr(use)
                                       ELSE localeCalls.first,
                             last |-> BoolStr(use)]
    /\ UNCHANGED <<ctx, heap, signals, detectDone, isContainerized,
                   call, cmd, ret, wrapVars, detVars, lockVars,
                   vgopts, vgres, vgerr, ran, nodes, dpc>>

CallCommandContext ==
    /\ call.op = "none"
    /\ \E name \in Cmds, args \in ArgLists :
          LET cont == IsContainerized(detectDone, isContainerized, signals)
          IN /\ \E order \in RangeOrders(heap, GetCustomEnvironment(ctx)) :
                   cmd' = CommandContext(cont, useStandardLocale, ctx, name, args, order)
             /\ detectDone' = onceDoneStore
             /\ isContainerized' = cont
             /\ call' = [op |-> "CommandContext", name |-> name, args |-> args]
    /\ UNCHANGED <<ctx, heap, signals, useStandardLocale, ret,
                   wrapVars, detVars, lockVars, optVars>>

CallWillUseNsenter ==
    /\ call.op = "none"
    /\ LET cont == IsContainerized(detectDone, isContainerized, signals)
       IN /\ ret' = WillUseNsenter(cont, ctx)
          /\ detectDone' = onceDoneStore
          /\ isContainerized' = cont
    /\ call' = [op |-> "WillUseNsenter", name |-> "", args |-> <<>>]
    /\ UNCHANGED <<ctx, heap, signals, useStandardLocale, cmd,
                   wrapVars, detVars, lockVars, optVars>>

\* The caller drops the result and starts over from context.Background().
NewCall ==
    /\ call.op # "none"
    /\ ctx' = <<>> /\ call' = NoCall /\ cmd' = NoCmd /\ ret' = FALSE
    /\ inner' = <<>> /\ iret' = NoRet /\ wret' = NoRet
    /\ UNCHANGED <<heap, signals, detectDone, isContainerized, useStandardLocale,
                   detVars, lockVars, optVars>>

Next ==
    \/ DeriveWaitDelay
    \/ DeriveDefaultVolumeGroup
    \/ DeriveCustomEnvironment
    \/ DeriveForceNoNsenter
    \/ MapAssign
    \/ SetUseStandardLocale
    \/ CallCommandContext
    \/ CallWillUseNsenter
    \/ NewCall

Spec == Init /\ [][Next]_vars

(***************************************************************************)
(* Properties of the context and of the command builder (under Spec)       *)
(***************************************************************************)
\* What the caller most recently set with the setter that stores values of
\* type t; NilValue when that setter was never applied.
LastSet(c, t) ==
    LET hits == {i \in 1..Len(c) : c[i].val.type = t}
    IN IF hits = {} THEN NilValue
       ELSE c[CHOOSE i \in hits : \A j \in hits : j <= i].val

SetOrDefault(c, t, default) ==
    IF LastSet(c, t).type = "nil" THEN default ELSE LastSet(c, t).v

\* The caller's most recent WithForceNoNsenter, if any, passed true.
BypassSet(c) == SetOrDefault(c, "bool", FALSE)

\* The same derivations without the WithForceNoNsenter ones.
WithoutBypass(c) == SelectSeq(c, LAMBDA e : e.val.type # "bool")

\* C2: the four setters are independent: every getter returns the value most
\* recently set for its own field, or its default when that field was never
\* set, whatever was set for the other three fields before or after it.
C2_SettersIndependent ==
    /\ GetProcessCancelWaitDelay(ctx) = SetOrDefault(ctx, "time.Duration", DefaultWaitDelay)
    /\ DefaultVolumeGroup(ctx) = SetOrDefault(ctx, "string", "")
    /\ GetCustomEnvironment(ctx) = SetOrDefault(ctx, "map[string]string", "nil")
    /\ shouldForceNoNsenter(ctx) = SetOrDefault(ctx, "bool", FALSE)

\* C6: WillUseNsenter(WithForceNoNsenter(c, true)) is false for every context
\* c, whether or not the process is containerized.
C6_ForcedNeverUsesNsenter ==
    (/\ call.op = "WillUseNsenter"
     /\ Len(ctx) > 0
     /\ ctx = WithForceNoNsenter(SubSeq(ctx, 1, Len(ctx) - 1), TRUE))
    => ret = FALSE

\* WillUseNsenter was called on a containerized process with a context that
\* WithForceNoNsenter(c, true) derived from one made with
\* WithForceNoNsenter(background, false).
C6_Witness ==
    /\ call.op = "WillUseNsenter"
    /\ isContainerized
    /\ ctx = WithForceNoNsenter(WithForceNoNsenter(<<>>, FALSE), TRUE)
    /\ ret = FALSE

\* C7: on a non-containerized process CommandContext runs cmd with exactly
\* args; on a containerized process with the bypass flag not set it runs
\* /usr/bin/nsenter with exactly -m -u -i -n -p -t 1 cmd and then args.
C7_NsenterPrefix ==
    call.op = "CommandContext" =>
        /\ ~isContainerized =>
              /\ cmd.Path = call.name
              /\ cmd.Args = <<call.name>> \o call.args
        /\ (isContainerized /\ ~BypassSet(ctx)) =>
              /\ cmd.Path = "/usr/bin/nsenter"
              /\ cmd.Args = <<"/usr/bin/nsenter", "-m", "-u", "-i", "-n", "-p", "-t", "1",
                              call.name>> \o call.args

\* A command with arguments was built on a containerized process from a
\* context on which the bypass flag was explicitly set to false.
C7_Witness ==
    /\ call.op = "CommandContext"
    /\ isContainerized
    /\ Len(ctx) > 0
    /\ LastSet(ctx, "bool") = [type |-> "bool", v |-> FALSE]
    /\ call.args # <<>>
    /\ cmd.Path = nsenter

\* C8: the descriptor built on a containerized process with the bypass flag
\* set to true is the descriptor built on a non-containerized process for
\* the same executable, arguments and other context fields.
C8_BypassSameAsDirect ==
    (call.op = "CommandContext" /\ isContainerized /\ BypassSet(ctx)) =>
        \E order \in RangeOrders(heap, GetCustomEnvironment(WithoutBypass(ctx))) :
            cmd = CommandContext(FALSE, useStandardLocale, WithoutBypass(ctx),
                                 call.name, call.args, order)

\* C10: a command built by CommandContext runs with the inherited
\* environment, the entries CommandContext added appended to it.
C10_InheritedEnvironmentKept ==
    call.op = "CommandContext" => RunEnv(cmd) = Environ \o cmd.Env

\* The setter that stores values of type t was never applied on the way to c.
NeverSet(c, t) == LastSet(c, t).type = "nil"

C23_WaitDelayFromContext ==
    call.op = "CommandContext" =>
        cmd.WaitDelay = SetOrDefault(ctx, "time.Duration", DefaultWaitDelay)

\* The entries the map that CommandWithCustomEnvironment ranges over holds.
CustomCount(c) ==
    IF GetCustomEnvironment(c) = "nil" THEN 0 ELSE Cardinality(heap[GetCustomEnvironment(c)])

\* The entries of the vector that come before the custom ones.
AutomaticEntries(d, c) == SubSeq(d.Env, 1, Len(d.Env) - CustomCount(c))

\* C24: the automatic entries are exactly LVM_VG_NAME=<vg>, there exactly
\* when the default volume group set on the context is not empty, and
\* LC_ALL=C, there exactly when UseStandardLocale() is true.
C24_AutomaticEntries ==
    call.op = "CommandContext" =>
        AutomaticEntries(cmd, ctx) =
            (IF SetOrDefault(ctx, "string", "") # ""
             THEN <<"LVM_VG_NAME=" \o SetOrDefault(ctx, "string", "")>> ELSE <<>>)
            \o (IF useStandardLocale THEN <<"LC_ALL=C">> ELSE <<>>)

\* The custom entries of the map the builder read, as a set of strings.
CustomEntries(c) ==
    IF GetCustomEnvironment(c) = "nil" THEN {}
    ELSE {p[1] \o "=" \o p[2] : p \in heap[GetCustomEnvironment(c)]}

Range(seq) == {seq[i] : i \in 1..Len(seq)}

C26_WillUseNsenterAgrees ==
    call.op = "WillUseNsenter" =>
        /\ ret = (isContainerized /\ ~shouldForceNoNsenter(ctx))
        /\ \A name \in Cmds : \A args \in ArgLists :
             \A order \in RangeOrders(heap, GetCustomEnvironment(ctx)) :
                ret = (CommandContext(isContainerized, useStandardLocale, ctx,
                                      name, args, order).Path = nsenter)
        /\ cmd = NoCmd

\* WillUseNsenter answered true on a containerized process for a context
\* on which the bypass flag was set to false.
C26_Witness ==
    /\ call.op = "WillUseNsenter" /\ ret = TRUE
    /\ LastSet(ctx, "bool") = [type |-> "bool", v |-> FALSE]
    /\ Len(ctx) = MaxCtxLen

\* C30: the context holds the caller's map itself: whatever the map holds
\* when a command is built from the context it was set on, or from a context
\* derived from that one, is in the command's environment vector.
C30_MapHeldByReference ==
    (/\ call.op = "CommandContext"
     /\ LastSet(ctx, "map[string]string").type # "nil"
     /\ LastSet(ctx, "map[string]string").v # "nil")
    => \A p \in heap[LastSet(ctx, "map[string]string").v] :
           p[1] \o "=" \o p[2] \in Range(cmd.Env)

\* C28 as stated: the flag is settable once, so after the first
\* SetUseStandardLocale call UseStandardLocale keeps returning the value that
\* call passed, whatever later calls pass.
C28_SettableOnce ==
    localeCalls.first # "unset" => BoolStr(useStandardLocale) = localeCalls.first

\* C28, amended: the flag can be set any number of times: UseStandardLocale
\* returns the value the latest SetUseStandardLocale call passed, and false
\* before the first call.
C28_LatestSetWins ==
    BoolStr(useStandardLocale) =
        (IF localeCalls.last = "unset" THEN "false" ELSE localeCalls.last)

\* The first call passed true, a later one false, and the flag is false.
C28_Witness ==
    /\ localeCalls = [first |-> "true", last |-> "false"]
    /\ ~useStandardLocale

(***************************************************************************)
(* SpecWrap: operations invoked through the noNsenter client wrapper       *)
(***************************************************************************)
\* The methods of noNsenterClient.
Methods ==
    {"Version", "RawConfig", "ReadAndDecodeConfig", "WriteAndEncodeConfig",
     "UpdateGlobalConfig", "UpdateLocalConfig", "UpdateProfileConfig",
     "CreateProfile", "RemoveProfile", "GetProfilePath", "GetProfileDirectory",
     "VG", "VGs", "VGCreate", "VGRemove", "VGExtend", "VGReduce", "VGRename",
     "VGChange", "LV", "LVs", "LVCreate", "LVRemove", "LVResize", "LVExtend",
     "LVReduce", "LVRename", "LVChange", "PVs", "PVCreate", "PVRemove",
     "PVResize", "PVChange", "PVMove", "DevList", "DevCheck", "DevUpdate",
     "DevModify"}

\* The options and other arguments a caller passes, and what the wrapped
\* client may return (a value and an error).
OptLists == {<<>>, <<"vg1", "--force">>}
Results == {[val |-> "value", err |-> ""], [val |-> "", err |-> "exit status 5"]}

applyNoNsenter_Unchanged(c) == c

applyNoNsenter(c) == WithForceNoNsenter(c, TRUE)

noNsenterMethod_DropsOpts(m, c, opts) ==
    [method |-> m, ctx |-> applyNoNsenter(c), opts |-> <<>>]

\* Method m of noNsenterClient: the call it makes on c.client.
noNsenterMethod(m, c, opts) ==
    [method |-> m, ctx |-> applyNoNsenter(c), opts |-> opts]

\* The caller invokes method m of the wrapper. The wrapped client receives
\* one call, asks WillUseNsenter about the context it got and returns r, which
\* the wrapper returns.
CallNoNsenterClient ==
    /\ call.op = "none"
    /\ \E m \in Methods, opts \in OptLists, r \in Results :
          LET d == noNsenterMethod(m, ctx, opts)
              cont == IsContainerized(detectDone, isContainerized, signals)
          IN /\ inner' = Append(inner, d)
             /\ ret' = WillUseNsenter(cont, d.ctx)
             /\ detectDone' = onceDoneStore
             /\ isContainerized' = cont
             /\ iret' = r
             /\ wret' = r
             /\ call' = [op |-> m, name |-> "", args |-> opts]
    /\ UNCHANGED <<ctx, heap, signals, useStandardLocale, cmd, detVars, lockVars, optVars>>

NextWrap ==
    \/ DeriveWaitDelay
    \/ DeriveDefaultVolumeGroup
    \/ DeriveCustomEnvironment
    \/ DeriveForceNoNsenter
    \/ CallNoNsenterClient
    \/ NewCall

SpecWrap == Init /\ [][NextWrap]_vars

\* The context the wrapped client received in the wrapper's call.
Received == inner[Len(inner)].ctx

\* C3: every operation invoked through the noNsenter wrapper reaches the
\* wrapped client with a context on which the bypass flag reads true, so
\* that WillUseNsenter is false for it, whatever the caller's context held.
C3_WrapperForcesBypass ==
    call.op \in Methods =>
        /\ Len(inner) > 0
        /\ shouldForceNoNsenter(Received) = TRUE
        /\ ret = FALSE

\* An operation went through the wrapper on a containerized process with a
\* caller context made with WithForceNoNsenter(ctx, false).
C3_Witness ==
    /\ call.op \in Methods
    /\ isContainerized
    /\ ctx = WithForceNoNsenter(<<>>, FALSE)
    /\ shouldForceNoNsenter(Received)
    /\ ret = FALSE

\* C4: the custom environment, default volume group and wait-delay the
\* wrapped client reads from the context it receives are the values the
\* caller had set on the context passed to the decorator.
C4_WrapperKeepsOtherFields ==
    call.op \in Methods =>
        /\ GetCustomEnvironment(Received) = SetOrDefault(ctx, "map[string]string", "nil")
        /\ DefaultVolumeGroup(Received) = SetOrDefault(ctx, "string", "")
        /\ GetProcessCancelWaitDelay(Received)
              = SetOrDefault(ctx, "time.Duration", DefaultWaitDelay)

\* C5: each wrapper method calls the same-named method of the wrapped client
\* exactly once, with the caller's options unchanged, and returns exactly
\* what the wrapped client returned.
C5_WrapperTransparent ==
    call.op \in Methods =>
        /\ Len(inner) = 1
        /\ inner[1].method = call.op
        /\ inner[1].opts = call.args
        /\ wret = iret

\* VGReduce was called through the wrapper with options, and failed.
C5_Witness ==
    /\ call.op = "VGReduce"
    /\ call.args # <<>>
    /\ Len(inner) = 1
    /\ inner[1].method = "VGReduce"
    /\ iret.err # ""
    /\ wret.err # ""

(***************************************************************************)
(* SpecDetect: goroutines call IsContainerized while the host's signals    *)
(* come and go. detectContainerized.Do is sync.Once.Do: a load of done,    *)
(* and when it is 0 the slow path under the Once's mutex.                  *)
(***************************************************************************)

\* Once.Do: if o.done.Load() == 0 { o.doSlow(f) }
onceDo(done) == IF done THEN "return" ELSE "lock"

\* Once.doSlow, holding o.m: if o.done.Load() == 0 { defer o.done.Store(1); f() }
ProbePc == <<"probe1", "probe2", "probe3", "probe4">>
onceDoSlow_NoRecheck(done) == ProbePc[1]
onceDoSlow(done) == IF done THEN "unlock" ELSE ProbePc[1]

\* After probe i of the function: a hit sets isContainerized and skips the
\* remaining else-if branches.
afterProbe_NoStop(hit, i) == IF i = Len(ProbeOrder) THEN "store" ELSE ProbePc[i + 1]
afterProbe(hit, i) == IF hit \/ i = Len(ProbeOrder) THEN "store" ELSE ProbePc[i + 1]

InitDetect ==
    /\ ctx = <<>>
    /\ heap = [m \in MapRefs \ {"nil"} |-> {}]
    /\ signals \in {NoSignals, [NoSignals EXCEPT ![containerenv] = "ok"]}
    /\ detectDone = FALSE /\ isContainerized = FALSE
    /\ useStandardLocale = FALSE
    /\ call = NoCall /\ cmd = NoCmd /\ ret = FALSE
    /\ InitOther

\* A goroutine calls IsContainerized and enters detectContainerized.Do.
DetectCall(g) ==
    /\ gpc[g] = "idle"
    /\ gpc' = [gpc EXCEPT ![g] = onceDo(detectDone)]
    /\ gret' = [gret EXCEPT ![g] = "none"]
    /\ glate' = [glate EXCEPT ![g] = firstRet # "none"]
    /\ UNCHANGED <<ctxVars, wrapVars, onceM, probes, firstRet, lockVars, optVars>>

DetectLock(g) ==
    /\ gpc[g] = "lock"
    /\ onceM = Nobody
    /\ onceM' = g
    /\ gpc' = [gpc EXCEPT ![g] = onceDoSlow(detectDone)]
    /\ UNCHANGED <<ctxVars, wrapVars, gret, probes, firstRet, glate, lockVars, optVars>>

\* Probe i of the else-if chain: os.Stat or os.LookupEnv on target i.
DetectProbe(g) ==
    /\ Len(probes) < MaxProbes
    /\ \E i \in 1..Len(ProbeOrder) :
          /\ gpc[g] = ProbePc[i]
          /\ LET hit == ProbeHit(signals, ProbeOrder[i])
             IN /\ probes' = Append(probes, ProbeOrder[i])
                /\ isContainerized' = (isContainerized \/ hit)
                /\ gpc' = [gpc EXCEPT ![g] = afterProbe(hit, i)]
    /\ UNCHANGED <<ctx, heap, signals, detectDone, useStandardLocale, call, cmd, ret,
                   wrapVars, gret, onceM, firstRet, glate, lockVars, optVars>>

DetectStore(g) ==
    /\ gpc[g] = "store"
    /\ detectDone' = onceDoneStore
    /\ gpc' = [gpc EXCEPT ![g] = "unlock"]
    /\ UNCHANGED <<ctx, heap, signals, isContainerized, useStandardLocale, call, cmd, ret,
                   wrapVars, gret, onceM, probes, firstRet, glate, lockVars, optVars>>

DetectUnlock(g) ==
    /\ gpc[g] = "unlock"
    /\ onceM' = Nobody
    /\ gpc' = [gpc EXCEPT ![g] = "return"]
    /\ UNCHANGED <<ctxVars, wrapVars, gret, probes, firstRet, glate, lockVars, optVars>>

\* return isContainerized
DetectReturn(g) ==
    /\ gpc[g] = "return"
    /\ gret' = [gret EXCEPT ![g] = BoolStr(isContainerized)]
    /\ firstRet' = IF firstRet = "none" THEN BoolStr(isContainerized) ELSE firstRet
    /\ gpc' = [gpc EXCEPT ![g] = "idle"]
    /\ UNCHANGED <<ctxVars, wrapVars, onceM, probes, glate, lockVars, optVars>>

\* A marker file or the environment variable appears, disappears or becomes
\* unreadable.
SignalChange ==
    /\ \E s \in SignalNames :
          \E v \in SignalStates(s) :
             /\ signals[s] # v
             /\ signals' = [signals EXCEPT ![s] = v]
    /\ UNCHANGED <<ctx, heap, detectDone, isContainerized, useStandardLocale, call, cmd,
                   ret, wrapVars, detVars, lockVars, optVars>>

NextDetect ==
    \/ \E g \in Goroutines : DetectCall(g)
    \/ \E g \in Goroutines : DetectLock(g)
    \/ \E g \in Goroutines : DetectProbe(g)
    \/ \E g \in Goroutines : DetectStore(g)
    \/ \E g \in Goroutines : DetectUnlock(g)
    \/ \E g \in Goroutines : DetectReturn(g)
    \/ SignalChange

SpecDetect == InitDetect /\ [][NextDetect]_vars

\* C9: once the first IsContainerized call has returned, no later step
\* probes the filesystem or the environment or changes the cached value, and
\* every call returns the value the first one returned, even though the
\* signals change.
C9_DetectedOnce ==
    [][firstRet # "none" =>
          /\ probes' = probes
          /\ isContainerized' = isContainerized
          /\ \A g \in Goroutines : gret'[g] \in {"none", firstRet}]_vars

\* A call that began after the first call had returned has returned false,
\* the value detected at first, although /.dockerenv is there by now.
C9_Witness ==
    \E g \in Goroutines :
        /\ glate[g]
        /\ gpc[g] = "idle"
        /\ gret[g] = "false"
        /\ firstRet = "false"
        /\ ProbeHit(signals, dockerenv)

\* The goroutine has passed Do in its current call or has returned from it.
PastDo(g) == gpc[g] = "return" \/ gret[g] # "none"

\* The goroutine is running the function handed to Do.
Probing(g) == gpc[g] \in {ProbePc[i] : i \in 1..Len(ProbePc)} \cup {"store"}

\* C20: with concurrent first calls the probe sequence runs once (the probes
\* made are one pass along the probe order), no caller gets past Do before
\* that run has finished, and all callers return the same value, the one the
\* run left in isContainerized.
C20_ConcurrentFirstCalls ==
    /\ Len(probes) <= Len(ProbeOrder)
    /\ \A i \in 1..Len(probes) : probes[i] = ProbeOrder[i]
    /\ Cardinality({g \in Goroutines : Probing(g)}) <= 1
    /\ \A g \in Goroutines : PastDo(g) =>
          /\ detectDone
          /\ \A h \in Goroutines : ~Probing(h)
    /\ \A g \in Goroutines : gret[g] # "none" => gret[g] = BoolStr(isContainerized)
    /\ \A g, h \in Goroutines :
          (gret[g] # "none" /\ gret[h] # "none") => gret[g] = gret[h]

\* Two calls that both began before any call had returned have both
\* returned, after a single run that found /.containerenv.
C20_Witness ==
    \E g, h \in Goroutines :
        /\ g # h /\ ~glate[g] /\ ~glate[h]
        /\ gret[g] = "true" /\ gret[h] = "true"
        /\ probes = <<dockerenv, containerenv>>

\* The goroutine makes probe i of the chain in this step.
ProbeStep(g, i) == gpc[g] = ProbePc[i] /\ gpc'[g] # ProbePc[i]

\* The next position after probe i when the chain goes on.
NextProbe(i) == IF i = Len(ProbeOrder) THEN "store" ELSE ProbePc[i + 1]

\* C21: the first invocation probes /.dockerenv, /.containerenv,
\* KUBERNETES_SERVICE_HOST and the token file in this order; a probe that
\* finds its signal present sets the result to true and ends the chain, one
\* that does not leaves it false and goes on; so the cached result is true
\* exactly when a probe found its signal, false only after all four missed.
C21_ProbeOrderAndStop ==
    [][/\ \A g \in Goroutines : \A i \in 1..Len(ProbeOrder) :
            ProbeStep(g, i) =>
                /\ probes = SubSeq(ProbeOrder, 1, i - 1)
                /\ probes' = SubSeq(ProbeOrder, 1, i)
                /\ ~isContainerized
                /\ isContainerized' = (signals[ProbeOrder[i]] = "ok")
                /\ gpc'[g] = IF signals[ProbeOrder[i]] = "ok" THEN "store" ELSE NextProbe(i)
       /\ (detectDone' /\ ~isContainerized') => probes' = ProbeOrder
       /\ (detectDone' /\ isContainerized') => Len(probes') >= 1]_vars

\* The run ended at the third probe, which found KUBERNETES_SERVICE_HOST.
C21_Witness ==
    /\ detectDone /\ isContainerized
    /\ probes = <<dockerenv, containerenv, kubeHostEnv>>
    /\ \E g \in Goroutines : gret[g] = "true"

\* C22: a probe that fails with an error counts as its signal being absent:
\* the result stays as it was and the chain goes on with the next signal;
\* IsContainerized only ever returns true or false, and false when the last
\* probe of the chain fails too.
C22_ProbeErrorsAreAbsent ==
    [][/\ \A g \in Goroutines : \A i \in 1..Len(ProbeOrder) :
            (ProbeStep(g, i) /\ signals[ProbeOrder[i]] = "error") =>
                /\ isContainerized' = isContainerized
                /\ ~isContainerized'
                /\ gpc'[g] = NextProbe(i)
       /\ \A g \in Goroutines :
            /\ gret'[g] \in {"none", "true", "false"}
            /\ (gpc[g] = "return" /\ gpc'[g] = "idle") =>
                   gret'[g] = BoolStr(isContainerized)]_vars

\* Every file probe fails with an error, the variable is not set, and the
\* call has returned false after all four probes.
C22_Witness ==
    /\ \A s \in SignalNames \ {kubeHostEnv} : signals[s] = "error"
    /\ signals[kubeHostEnv] = "absent"
    /\ detectDone /\ probes = ProbeOrder
    /\ \E g \in Goroutines : gret[g] = "false" /\ ~glate[g]

(***************************************************************************)
(* SpecLock: goroutines call operations of a locking client. A mutating    *)
(* operation gets or creates the lock of its resource name under the       *)
(* registry's own short-lived mutex, acquires that lock, runs the delegate *)
(* call and releases the lock; a read-only operation goes straight to the  *)
(* delegate call.                                                          *)
(***************************************************************************)
OpKinds == {"mutating", "readonly"}
Outcomes == {"ok", "error", "cancelled"}

\* The key an operation locks: its target resource name.
lockKey_Global(op) == "vg1"
lockKey(op) == op.name

\* Whether an operation of this kind takes the lock of its resource name.
needsLock_All(kind) == TRUE
needsLock(kind) == kind = "mutating"

\* The locks after the operation holding the lock of n ended with outcome o.
released_OnSuccess(h, n, o) == IF o = "ok" THEN [h EXCEPT ![n] = Nobody] ELSE h
released(h, n, o) == [h EXCEPT ![n] = Nobody]

LockFree_Always(h, n) == TRUE

\* Whether the lock of name n can be acquired.
LockFree(h, n) == h[n] = Nobody

InitLock ==
    /\ ctx = <<>>
    /\ heap = [m \in MapRefs \ {"nil"} |-> {}]
    /\ signals = NoSignals
    /\ detectDone = FALSE /\ isContainerized = FALSE
    /\ useStandardLocale = FALSE
    /\ call = NoCall /\ cmd = NoCmd /\ ret = FALSE
    /\ InitOther

\* A goroutine invokes an operation of the locking client.
LockStart(g) ==
    /\ lpc[g] = "idle"
    /\ \E k \in OpKinds, n \in Names :
          /\ lop' = [lop EXCEPT ![g] = [kind |-> k, name |-> n]]
          /\ lpc' = [lpc EXCEPT ![g] = IF needsLock(k) THEN "registry" ELSE "delegate"]
    /\ lres' = [lres EXCEPT ![g] = "none"]
    /\ UNCHANGED <<ctxVars, wrapVars, detVars, registry, regM, held, optVars>>

LockRegistry(g) ==
    /\ lpc[g] = "registry"
    /\ regM = Nobody
    /\ regM' = g
    /\ lpc' = [lpc EXCEPT ![g] = "getOrCreate"]
    /\ UNCHANGED <<ctxVars, wrapVars, detVars, lop, lres, registry, held, optVars>>

LockGetOrCreate(g) ==
    /\ lpc[g] = "getOrCreate"
    /\ registry' = registry \cup {lockKey(lop[g])}
    /\ regM' = Nobody
    /\ lpc' = [lpc EXCEPT ![g] = "acquire"]
    /\ UNCHANGED <<ctxVars, wrapVars, detVars, lop, lres, held, optVars>>

LockAcquire(g) ==
    /\ lpc[g] = "acquire"
    /\ LockFree(held, lockKey(lop[g]))
    /\ held' = [held EXCEPT ![lockKey(lop[g])] = g]
    /\ lpc' = [lpc EXCEPT ![g] = "delegate"]
    /\ UNCHANGED <<ctxVars, wrapVars, detVars, lop, lres, registry, regM, optVars>>

\* The delegate call (the external command) ends: with success, with a
\* domain error or cancelled.
LockDelegateReturn(g) ==
    /\ lpc[g] = "delegate"
    /\ \E o \in Outcomes : lres' = [lres EXCEPT ![g] = o]
    /\ lpc' = [lpc EXCEPT ![g] = IF needsLock(lop[g].kind) THEN "release" ELSE "idle"]
    /\ UNCHANGED <<ctxVars, wrapVars, detVars, lop, registry, regM, held, optVars>>

LockRelease(g) ==
    /\ lpc[g] = "release"
    /\ held' = released(held, lockKey(lop[g]), lres[g])
    /\ lpc' = [lpc EXCEPT ![g] = "idle"]
    /\ UNCHANGED <<ctxVars, wrapVars, detVars, lop, lres, registry, regM, optVars>>

NextLock ==
    \/ \E g \in Goroutines : LockStart(g)
    \/ \E g \in Goroutines : LockRegistry(g)
    \/ \E g \in Goroutines : LockGetOrCreate(g)
    \/ \E g \in Goroutines : LockAcquire(g)
    \/ \E g \in Goroutines : LockDelegateReturn(g)
    \/ \E g \in Goroutines : LockRelease(g)

SpecLock == InitLock /\ [][NextLock]_vars

\* The goroutine is inside the delegate call of a mutating operation on n.
InDelegate(g, n) ==
    lpc[g] = "delegate" /\ lop[g].kind = "mutating" /\ lop[g].name = n

\* C1: at most one mutating operation per resource name is inside its
\* delegate call at any time.
C1_SameNameExclusive ==
    \A n \in Names : \A g, h \in Goroutines :
        (InDelegate(g, n) /\ InDelegate(h, n)) => g = h

\* One mutating operation on vg1 is inside its delegate call while another
\* mutating operation on vg1 waits for the lock.
C1_Witness ==
    \E g, h \in Goroutines :
        /\ g # h
        /\ InDelegate(g, "vg1")
        /\ lpc[h] = "acquire" /\ lop[h] = [kind |-> "mutating", name |-> "vg1"]
        /\ held["vg1"] = g

\* The goroutine is in the locked part of a mutating operation on name n.
Inside(g, n) ==
    lpc[g] \in {"delegate", "release"} /\ lop[g].kind = "mutating" /\ lop[g].name = n

\* The goroutine waits for the lock of name n.
Waiting(g, n) == lpc[g] = "acquire" /\ lop[g].name = n

\* C15: operations on different names never contend: an operation waiting
\* for the lock of its name gets it unless another operation is in its locked
\* part on that same name; what is held for other names does not matter.
C15_DistinctNamesNeverContend ==
    \A g \in Goroutines : \A n \in Names :
        (Waiting(g, n) /\ \A h \in Goroutines \ {g} : ~Inside(h, n))
            => ENABLED LockAcquire(g)

\* Two mutating operations on two distinct names are both inside their
\* delegate calls.
C15_Witness ==
    \E g, h \in Goroutines : InDelegate(g, "vg1") /\ InDelegate(h, "vg2")

\* The mutating operation of g has returned.
ReturnedMutating(g) ==
    lpc[g] = "idle" /\ lres[g] \in Outcomes /\ lop[g].kind = "mutating"

\* C16: the lock is released on every exit path: a goroutine whose mutating
\* operation has returned, with whatever outcome, holds no lock, a lock is
\* only ever held by a goroutine inside its operation on that name, and an
\* operation waiting for the name of the returned one can acquire the lock
\* unless yet another operation has taken it.
C16_ReleasedOnEveryExit ==
    /\ \A n \in Names : held[n] # Nobody => Inside(held[n], n)
    /\ \A g \in Goroutines : ReturnedMutating(g) =>
          /\ \A n \in Names : held[n] # g
          /\ \A h \in Goroutines \ {g} :
                (Waiting(h, lop[g].name) /\ \A k \in Goroutines \ {h} : ~Inside(k, lop[g].name))
                    => ENABLED LockAcquire(h)

\* An operation on vg1 has returned cancelled, and another one that waits
\* for vg1 finds the lock free.
C16_Witness ==
    \E g, h \in Goroutines :
        /\ ReturnedMutating(g) /\ lres[g] = "cancelled" /\ lop[g].name = "vg1"
        /\ Waiting(h, "vg1") /\ held["vg1"] = Nobody

\* C17: a read-only operation takes no lock and is never blocked: once
\* invoked it is in its delegate call, which can end whatever locks are held,
\* and it never holds a lock.
C17_ReadOnlyNeverLocks ==
    \A g \in Goroutines :
        (lop[g].kind = "readonly" /\ lpc[g] # "idle") =>
            /\ lpc[g] = "delegate"
            /\ ENABLED LockDelegateReturn(g)
            /\ \A n \in Names : held[n] # g

\* A read-only operation on vg1 runs while a mutating operation holds the
\* lock of vg1.
C17_Witness ==
    \E g, h \in Goroutines :
        /\ lpc[g] = "delegate" /\ lop[g] = [kind |-> "readonly", name |-> "vg1"]
        /\ InDelegate(h, "vg1") /\ held["vg1"] = h

(***************************************************************************)
(* SpecVG: the option list of VGReduce (vgreduce.go)                       *)
(*                                                                         *)
(* An options struct is a record of its fields; an argument list is the    *)
(* sequence of its tokens.  An error is its message, "nil" for no error.   *)
(* Profile, which CommonOptions does not render, is left out.              *)
(***************************************************************************)

MaxOpts == 3

NilError == "nil"
ErrVolumeGroupName == "VolumeGroupName is required for extension of a volume group"
ErrPhysicalVolumeName ==
    "at least one PhysicalVolumeName is required for reduction of a volume group"
RunErrors == {NilError, "exit status 5"}

CommonOptions ==
    [Devices |-> <<>>, DevicesFile |-> "", Verbose |-> FALSE, RequestConfirm |-> FALSE]

\* VGReduceOptions{}
VGReduceOptions ==
    [VolumeGroupName |-> "", PhysicalVolumeNames |-> <<>>, RemoveMissing |-> FALSE,
     Force |-> FALSE, CommonOptions |-> CommonOptions]

\* The options a caller passes: values of the field types and *VGReduceOptions.
\* A value of a field type is carried in the field of its kind of a record v.
StructKind == "*VGReduceOptions"
FieldOption(kind, val) == [kind |-> kind, v |-> [VGReduceOptions EXCEPT ![kind] = val]]
FieldOptions ==
    {FieldOption("VolumeGroupName", n) : n \in {"vg1", "vg2"}}
    \cup {FieldOption("PhysicalVolumeNames", pv) : pv \in {<<"/dev/a">>, <<"/dev/b">>}}
    \cup {FieldOption("RemoveMissing", b) : b \in BOOLEAN}
    \cup {FieldOption("Force", TRUE)}
StructOptions ==
    {[kind |-> StructKind, v |-> o] : o \in
        {[VGReduceOptions EXCEPT !.VolumeGroupName = "vg1",
                                 !.PhysicalVolumeNames = <<"/dev/a">>,
                                 !.CommonOptions = [Devices |-> <<"/dev/a", "/dev/b">>,
                                                    DevicesFile |-> "lvm.devices",
                                                    Verbose |-> TRUE,
                                                    RequestConfirm |-> FALSE]],
         [VGReduceOptions EXCEPT !.RemoveMissing = TRUE, !.Force = TRUE,
                                 !.CommonOptions = [CommonOptions EXCEPT
                                                       !.RequestConfirm = TRUE]]}}
VGReduceOption == FieldOptions \cup StructOptions
\* (*VGReduceOptions).ApplyToVGReduceOptions: *new = *opts
StructApply_KeepsEarlierFlags(opts, new) ==
    [opts EXCEPT !.Force = opts.Force \/ new.Force,
                 !.RemoveMissing = opts.RemoveMissing \/ new.RemoveMissing]
StructApply_Merge(opts, new) ==
    [f \in DOMAIN new |-> IF opts[f] = VGReduceOptions[f] THEN new[f] ELSE opts[f]]
StructApply(opts, new) == opts

\* ApplyToVGReduceOptions of a field type: the field of its kind is overwritten
FieldApply(opt, new) == [new EXCEPT ![opt.kind] = opt.v[opt.kind]]

ApplyToVGReduceOptions(opt, options) ==
    IF opt.kind = StructKind THEN StructApply(opt.v, options) ELSE FieldApply(opt, options)

\* options := VGReduceOptions{}; for _, opt := range list { opt.Apply...(&options) }
RECURSIVE Aggregate(_, _)
Aggregate(list, options) ==
    IF list = <<>> THEN options
    ELSE Aggregate(Tail(list), ApplyToVGReduceOptions(Head(list), options))

NewArgs == <<>>
GetRaw(args) == args
AddOrReplace(args, flag) == Append(SelectSeq(args, LAMBDA t : t # flag), flag)
AddAll(args, toks) == args \o toks

RequestConfirm_ApplyToArgs(opt, args) == IF ~opt THEN AddOrReplace(args, "--yes") ELSE args
Verbose_ApplyToArgs(opt, args) == IF opt THEN AddOrReplace(args, "--verbose") ELSE args
RECURSIVE Join(_, _)
Join(elems, sep) ==
    IF Len(elems) = 0 THEN ""
    ELSE IF Len(elems) = 1 THEN elems[1]
    ELSE elems[1] \o sep \o Join(Tail(elems), sep)
Devices_ApplyToArgs(opt, args) ==
    IF Len(opt) = 0 THEN args ELSE AddAll(args, <<"--devices", Join(opt, ",")>>)
DevicesFile_ApplyToArgs(opt, args) ==
    IF opt = "" THEN args ELSE AddAll(args, <<"--devicesfile", opt>>)
CommonOptions_ApplyToArgs(opts, args) ==
    RequestConfirm_ApplyToArgs(opts.RequestConfirm,
      Verbose_ApplyToArgs(opts.Verbose,
        DevicesFile_ApplyToArgs(opts.DevicesFile,
          Devices_ApplyToArgs(opts.Devices, args))))

RemoveMissing_ApplyToArgs(opt, args) ==
    IF opt THEN AddOrReplace(args, "--removemissing") ELSE args
VolumeGroupName_ApplyToArgs(opt, args) == IF opt = "" THEN args ELSE AddAll(args, <<opt>>)
PhysicalVolumeNames_ApplyToArgs(opt, args) == AddAll(args, opt)
Force_ApplyToArgs(opt, args) == IF opt THEN AddOrReplace(args, "--force") ELSE args

RenderVGReduce_ForceFirst(opts, args) ==
    CommonOptions_ApplyToArgs(opts.CommonOptions,
      PhysicalVolumeNames_ApplyToArgs(opts.PhysicalVolumeNames,
        VolumeGroupName_ApplyToArgs(opts.VolumeGroupName,
          RemoveMissing_ApplyToArgs(opts.RemoveMissing,
            Force_ApplyToArgs(opts.Force, args)))))

\* The rendering loop of (*VGReduceOptions).ApplyToArgs, in its fixed order
RenderVGReduce(opts, args) ==
    CommonOptions_ApplyToArgs(opts.CommonOptions,
      Force_ApplyToArgs(opts.Force,
        PhysicalVolumeNames_ApplyToArgs(opts.PhysicalVolumeNames,
          VolumeGroupName_ApplyToArgs(opts.VolumeGroupName,
            RemoveMissing_ApplyToArgs(opts.RemoveMissing, args)))))

\* (*VGReduceOptions).ApplyToArgs: the argument list afterwards and the error
VGReduceOptions_ApplyToArgs_Unvalidated(opts, args) ==
    [args |-> RenderVGReduce(opts, args), err |-> NilError]
VGReduceOptions_ApplyToArgs(opts, args) ==
    IF opts.VolumeGroupName = ""
    THEN [args |-> args, err |-> ErrVolumeGroupName]
    ELSE IF Len(opts.PhysicalVolumeNames) = 0 /\ ~opts.RemoveMissing
    THEN [args |-> args, err |-> ErrPhysicalVolumeName]
    ELSE [args |-> RenderVGReduce(opts, args), err |-> NilError]

\* VGReduceOptionsList.AsArgs: (Arguments, error); nil is the nil Arguments
AsArgs(list) ==
    LET r == VGReduceOptions_ApplyToArgs(Aggregate(list, VGReduceOptions), NewArgs)
    IN  IF r.err # NilError
        THEN [args |-> <<>>, nil |-> TRUE, err |-> r.err]
        ELSE [args |-> r.args, nil |-> FALSE, err |-> NilError]

\* client.VGReduce: the error returned and the command lines given to RunLVM;
\* run is what RunLVM returns when it is called
VGReduce(list, run) ==
    LET r == AsArgs(list)
    IN  IF r.err # NilError
        THEN [err |-> r.err, ran |-> <<>>]
        ELSE [err |-> run, ran |-> << <<"vgreduce">> \o GetRaw(r.args) >>]

\* The caller composes the variadic option list, one option at a time ...
AddOption ==
    \E opt \in VGReduceOption :
        /\ vgerr = "none" /\ Len(vgopts) < MaxOpts
        /\ vgopts' = Append(vgopts, opt)
        /\ UNCHANGED <<ctxVars, wrapVars, detVars, lockVars, vgres, vgerr, ran, deriveVars,
                       localeCalls>>

\* ... and calls VGReduce(ctx, opts...)
CallVGReduce ==
    \E run \in RunErrors :
        /\ vgerr = "none"
        /\ vgres' = AsArgs(vgopts)
        /\ vgerr' = VGReduce(vgopts, run).err
        /\ ran' = VGReduce(vgopts, run).ran
        /\ UNCHANGED <<ctxVars, wrapVars, detVars, lockVars, vgopts, deriveVars,
                       localeCalls>>

\* The call has returned; the caller starts over with a new option list
NewVGReduce ==
    /\ vgerr # "none"
    /\ vgopts' = <<>> /\ vgres' = [args |-> <<>>, nil |-> TRUE, err |-> "none"]
    /\ vgerr' = "none" /\ ran' = <<>>
    /\ UNCHANGED <<ctxVars, wrapVars, detVars, lockVars, deriveVars, localeCalls>>

NextVG == AddOption \/ CallVGReduce \/ NewVGReduce

SpecVG == InitLock /\ [][NextVG]_vars

(***************************************************************************)
(* Properties of VGReduce and its option list (under SpecVG)               *)
(***************************************************************************)

Returned == vgerr # "none"
Aggregated == Aggregate(vgopts, VGReduceOptions)

\* Neither a VolumeGroupName, or no PhysicalVolumeName and no RemoveMissing
ValidationFails(o) ==
    \/ o.VolumeGroupName = ""
    \/ Len(o.PhysicalVolumeNames) = 0 /\ ~o.RemoveMissing

\* C11: when the validation of the aggregated options fails, VGReduce returns
\* the validation error, no command was handed to RunLVM, and AsArgs returned
\* the nil argument list with that error, never a partly rendered one.
C11_ValidationShortCircuits ==
    Returned /\ ValidationFails(Aggregated) =>
        /\ vgerr \in {ErrVolumeGroupName, ErrPhysicalVolumeName}
        /\ ran = <<>>
        /\ vgres.nil /\ vgres.args = <<>> /\ vgres.err = vgerr

\* A call that failed validation although a renderable option (Force) was set
C11_Witness ==
    /\ Returned /\ ValidationFails(Aggregated)
    /\ Aggregated.Force /\ Aggregated.VolumeGroupName # ""
    /\ vgerr = ErrPhysicalVolumeName /\ ran = <<>>

RemoveAt(list, i) == SubSeq(list, 1, i - 1) \o SubSeq(list, i + 1, Len(list))

\* C12: aggregation is last-wins: where option A is directly followed by an
\* option B of the same kind, AsArgs returns what it returns for the list
\* without A, so the argument list holds B's rendering only.
C12_LastWins ==
    Returned =>
        \A i \in 1..(Len(vgopts) - 1) :
            vgopts[i].kind = vgopts[i + 1].kind => vgres = AsArgs(RemoveAt(vgopts, i))

\* A then a different B of the same kind, rendered, where A alone renders otherwise
C12_Witness ==
    /\ Returned /\ Len(vgopts) = 3 /\ ~vgres.nil
    /\ vgopts[2].kind = vgopts[3].kind /\ vgopts[2] # vgopts[3]
    /\ AsArgs(RemoveAt(vgopts, 3)) # vgres

(***************************************************************************)
(* SpecDerive: goroutines deriving contexts from shared parents            *)
(*                                                                         *)
(* A context is 0 (context.Background()) or the index of a value context   *)
(* in nodes; a value context holds its parent and one (key, value) pair.   *)
(***************************************************************************)

MaxNodes == 3

Background == 0
NoDerivation == [pc |-> "idle", parent |-> Background, kv |-> <<>>]

\* The (key, value) pair a setter hands to context.WithValue
Stored(derived) == derived[Len(derived)]

\* context.WithValue(parent, key, val): &valueCtx{parent, key, val}
newValueCtx_InPlace(ns, parent, kv) ==
    IF parent = Background THEN Append(ns, [parent |-> parent, kv |-> kv])
    ELSE [ns EXCEPT ![parent] = [parent |-> ns[parent].parent, kv |-> kv]]
newValueCtx(ns, parent, kv) == Append(ns, [parent |-> parent, kv |-> kv])

\* The pairs ctx.Value walks through, outermost first
RECURSIVE Chain(_, _)
Chain(ns, c) ==
    IF c = Background THEN <<>> ELSE Append(Chain(ns, ns[c].parent), ns[c].kv)

Pending == {g \in Goroutines : dpc[g].pc = "alloc"}

\* A goroutine calls one of the four setters on a context it holds
DeriveBegin(g) ==
    /\ dpc[g].pc = "idle"
    /\ Len(nodes) + Cardinality(Pending) < MaxNodes
    /\ \E p \in 0..Len(nodes) :
        \/ \E d \in Delays \ {DefaultWaitDelay} :
            dpc' = [dpc EXCEPT ![g] = [pc |-> "alloc", parent |-> p,
                        kv |-> Stored(SetProcessCancelWaitDelay(<<>>, d))]]
        \/ \E vg \in VolumeGroups \ {""} :
            dpc' = [dpc EXCEPT ![g] = [pc |-> "alloc", parent |-> p,
                        kv |-> Stored(WithDefaultVolumeGroup(<<>>, vg))]]
        \/ \E m \in MapRefs \ {"nil"} :
            dpc' = [dpc EXCEPT ![g] = [pc |-> "alloc", parent |-> p,
                        kv |-> Stored(WithCustomEnvironment(<<>>, m))]]
        \/ dpc' = [dpc EXCEPT ![g] = [pc |-> "alloc", parent |-> p,
                        kv |-> Stored(WithForceNoNsenter(<<>>, TRUE))]]
    /\ UNCHANGED <<ctxVars, wrapVars, detVars, lockVars, vgopts, vgres, vgerr, ran, nodes,
                   localeCalls>>

\* context.WithValue allocates the child and the setter returns it
DeriveReturn(g) ==
    /\ dpc[g].pc = "alloc"
    /\ nodes' = newValueCtx(nodes, dpc[g].parent, dpc[g].kv)
    /\ dpc' = [dpc EXCEPT ![g] = NoDerivation]
    /\ UNCHANGED <<ctxVars, wrapVars, detVars, lockVars, vgopts, vgres, vgerr, ran,
                   localeCalls>>

NextDerive == \E g \in Goroutines : DeriveBegin(g) \/ DeriveReturn(g)

SpecDerive == InitLock /\ [][NextDerive]_vars

\* What the four getters return on context c
Getters(ns, c) ==
    <<GetProcessCancelWaitDelay(Chain(ns, c)), DefaultVolumeGroup(Chain(ns, c)),
      GetCustomEnvironment(Chain(ns, c)), shouldForceNoNsenter(Chain(ns, c))>>

\* C14: a setter returns a new context and leaves every existing context, its
\* parent included, unchanged: each getter returns on it what it returned
\* before the step, whichever goroutines are deriving from it at the time.
C14_ParentUnchanged ==
    [][/\ \A c \in 0..Len(nodes) : Getters(nodes', c) = Getters(nodes, c)
       /\ \A g \in Goroutines : dpc[g].pc = "alloc" /\ dpc'[g].pc = "idle" =>
              /\ Len(nodes') = Len(nodes) + 1
              /\ nodes'[Len(nodes')] = [parent |-> dpc[g].parent, kv |-> dpc[g].kv]]_vars

\* A parent with a value set has one child already, while another goroutine
\* is deriving a second child from it
C14_Witness ==
    \E g \in Goroutines : \E i \in 1..Len(nodes) :
        /\ dpc[g].pc = "alloc" /\ dpc[g].parent = nodes[i].parent
        /\ nodes[i].parent # Background
        /\ Getters(nodes, nodes[i].parent) # Getters(nodes, Background)


\* The list with its options in the order perm gives.
Permuted(list, perm) == [i \in 1..Len(list) |-> list[perm[i]]]
Reorderings(n) == {f \in [1..n -> 1..n] : \A i, j \in 1..n : i # j => f[i] # f[j]}

\* No option of the list is a struct or of the kind of another one.
DistinctFieldKinds(list) ==
    /\ \A i \in 1..Len(list) : list[i].kind # StructKind
    /\ \A i, j \in 1..Len(list) : i # j => list[i].kind # list[j].kind

Flag(set, flag) == IF set THEN <<flag>> ELSE <<>>

\* C27: a valid option set is rendered in one fixed order: vgreduce, then
\* RemoveMissing, VolumeGroupName, PhysicalVolumeNames, Force, then of the
\* common options Devices, DevicesFile, Verbose, RequestConfirm; passing the
\* same options in another order gives the same argument list.
C27_FixedRenderingOrder ==
    (Returned /\ ~ValidationFails(Aggregated)) =>
        /\ ran = << <<"vgreduce">>
                    \o Flag(Aggregated.RemoveMissing, "--removemissing")
                    \o <<Aggregated.VolumeGroupName>>
                    \o Aggregated.PhysicalVolumeNames
                    \o Flag(Aggregated.Force, "--force")
                    \o (IF Aggregated.CommonOptions.Devices = <<>> THEN <<>>
                        ELSE <<"--devices", Join(Aggregated.CommonOptions.Devices, ",")>>)
                    \o (IF Aggregated.CommonOptions.DevicesFile = "" THEN <<>>
                        ELSE <<"--devicesfile", Aggregated.CommonOptions.DevicesFile>>)
                    \o Flag(Aggregated.CommonOptions.Verbose, "--verbose")
                    \o Flag(~Aggregated.CommonOptions.RequestConfirm, "--yes") >>
        /\ DistinctFieldKinds(vgopts) =>
              \A perm \in Reorderings(Len(vgopts)) : AsArgs(Permuted(vgopts, perm)) = vgres

\* Force, the physical volume and the volume group were passed in an order
\* that is not the rendering order, and rendered.
C27_Witness ==
    /\ Returned /\ ~vgres.nil /\ Len(vgopts) = 3 /\ DistinctFieldKinds(vgopts)
    /\ vgopts[1].kind = "Force" /\ vgopts[3].kind = "VolumeGroupName"
    /\ ran = << <<"vgreduce", "vg1", "/dev/b", "--force", "--yes">> >>

\* C29: a *VGReduceOptions passed as an option replaces the whole aggregate:
\* AsArgs returns what it returns for the list from that option on, so
\* nothing set by an option before it is left, a field the struct leaves at
\* its zero value included, and the options after it still apply.
C29_StructReplacesAggregate ==
    Returned =>
        \A i \in 1..Len(vgopts) :
            vgopts[i].kind = StructKind =>
                vgres = AsArgs(SubSeq(vgopts, i, Len(vgopts)))

\* Force was passed, then a struct that leaves Force at zero, then a second
\* physical volume: the list is rendered without --force.
C29_Witness ==
    /\ Returned /\ ~vgres.nil /\ Len(vgopts) = 3
    /\ vgopts[1].kind = "Force" /\ vgopts[2].kind = StructKind
    /\ vgopts[3].kind = "PhysicalVolumeNames"
    /\ \A i \in 1..Len(vgres.args) : vgres.args[i] # "--force"
    /\ vgres.args[2] = "/dev/b"

====
